---- MODULE Spec2Model ----
(***************************************************************************)
(* Model of template_project_offline/my_example.cpp: main() creates the    *)
(* output directory, builds a floor + pendulum + spherical link scene,     *)
(* configures the POV-Ray exporter, writes the export script once and then  *)
(* runs the loop  while (sys.GetChTime() < 1.5) { DoStepDynamics(0.01);    *)
(* print time; ExportData(); }.                                             *)
(*                                                                         *)
(* Simulated time is a C++ double.  A double d is represented exactly by   *)
(* three little-endian limbs <<l0, l1, l2>> in base 2^20 with              *)
(*     d = (l0 + l1*2^20 + l2*2^40) * 2^-60,                               *)
(* l0, l1 < 2^20 and l2 unbounded, so that additions are rounded as IEEE   *)
(* binary64 round-to-nearest-even does.  Printed values are integers in    *)
(* units of 10^-8 (what operator<< shows with its 6 significant digits).   *)
(***************************************************************************)
EXTENDS Integers, Naturals, Sequences, FiniteSets, TLC

\* pc          control position in main()
\* dirCreated  whether create_directory returned success (line 36)
\* bodies      the bodies added to sys (lines 99, 111)
\* links       the links added to sys, each with the bodies it joins (line 126)
\* povItems    the items pov_exporter took with AddAll (line 144)
\* ChTime      sys.GetChTime(), a double
\* console     what was written to std::cout (lines 37, 179)
\* log         the calls made so far, in order
\* exitCode    the value main returned, -1 while it is running
VARIABLES pc, dirCreated, bodies, links, povItems, ChTime,
          console, log, exitCode

vars == <<pc, dirCreated, bodies, links, povItems, ChTime,
          console, log, exitCode>>

\* Cap on the number of DoStepDynamics calls explored (the while loop has no
\* bound of its own other than the simulated time).
MaxSteps == 200

----------------------------------------------------------------------------
(* IEEE binary64 arithmetic on limb triples                                *)

Base == 2^20

RECURSIVE BitLen(_)
BitLen(n) == IF n = 0 THEN 0 ELSE 1 + BitLen(n \div 2)

\* Carry propagation: l0, l1 back below Base, the rest into l2.
Normalize(v) ==
    LET c0 == v[1] \div Base
        s1 == v[2] + c0
        c1 == s1 \div Base
    IN  <<v[1] % Base, s1 % Base, v[3] + c1>>

\* Round an exact value to the nearest double, ties to even.  A value below
\* 2^52 units has at most 52 bits and is exact; otherwise the unit in the
\* last place is 2^(bitlength - 53), which lies inside limb l0.
RoundToDouble(v) ==
    IF v[3] < 2^12 THEN v
    ELSE LET u  == 2^(BitLen(v[3]) - 13)
             r  == v[1] % u
             q  == v[1] \div u
             up == (2 * r > u) \/ (2 * r = u /\ q % 2 = 1)
         IN  Normalize(<<v[1] - r + (IF up THEN u ELSE 0), v[2], v[3]>>)

\* x + y in double arithmetic.
DAdd(x, y) == RoundToDouble(Normalize(<<x[1] + y[1], x[2] + y[2], x[3] + y[3]>>))

\* x < y on doubles.
DLess(x, y) ==
    \/ x[3] < y[3]
    \/ x[3] = y[3] /\ x[2] < y[2]
    \/ x[3] = y[3] /\ x[2] = y[2] /\ x[1] < y[1]

----------------------------------------------------------------------------
(* std::cout << double : default format, 6 significant digits              *)

\* Split off the integer part: <<f0, f1, f2, int>>, f* the 60 fraction bits.
Widen(v) == <<v[1], v[2], v[3] % Base, v[3] \div Base>>

Mul10(w) ==
    LET t0 == w[1] * 10
        t1 == w[2] * 10 + t0 \div Base
        t2 == w[3] * 10 + t1 \div Base
        t3 == w[4] * 10 + t2 \div Base
    IN  <<t0 % Base, t1 % Base, t2 % Base, t3>>

\* w * 10^p (each product is bound to m, so that it is computed once)
RECURSIVE Scale(_, _)
Scale(w, p) ==
    IF p = 0 THEN w
    ELSE CHOOSE r \in {Scale(m, p - 1) : m \in {Mul10(w)}} : TRUE

\* Number of decimals that gives 6 significant digits, for 0.001 <= d < 10
\* (all times of this program); smaller values are shown with 8 decimals.
Decimals(w) ==
    IF w[4] >= 1 THEN 5
    ELSE IF Scale(w, 1)[4] >= 1 THEN 6
    ELSE IF Scale(w, 2)[4] >= 1 THEN 7
    ELSE 8

\* Nearest integer to an exact value, ties to even.
RoundHalfEven(w) ==
    LET half  == w[3] = Base \div 2 /\ w[2] = 0 /\ w[1] = 0
        above == w[3] > Base \div 2
                 \/ (w[3] = Base \div 2 /\ (w[2] > 0 \/ w[1] > 0))
    IN  IF above \/ (half /\ w[4] % 2 = 1) THEN w[4] + 1 ELSE w[4]

\* Mutant: the digits are rounded upward instead of to nearest.
FormatG_RoundUp(v) ==
    CHOOSE r \in {(IF w[1] + w[2] + w[3] > 0 THEN w[4] + 1 ELSE w[4])
                      * 10^(8 - Decimals(Widen(v))) :
                  w \in {Scale(Widen(v), Decimals(Widen(v)))}} : TRUE

\* The decimal number printed for the double v, in units of 10^-8.
FormatG(v) ==
    CHOOSE r \in {RoundHalfEven(w) * 10^(8 - Decimals(Widen(v))) :
                  w \in {Scale(Widen(v), Decimals(Widen(v)))}} : TRUE

----------------------------------------------------------------------------
(* Literals of main()                                                      *)

\* 0.0, the time of a freshly constructed ChSystemNSC
Zero == <<0, 0, 0>>

\* double step_size = 5e-3 (0x1.47ae147ae147bp-8), declared and never used
step_size == <<922747, 922746, 5242>>

\* Mutant: the step is taken from step_size, as in the commented-out loop.
StepArg_step_size == step_size

\* the literal 0.01 passed to DoStepDynamics (0x1.47ae147ae147bp-7)
StepArg == <<796918, 796917, 10485>>

\* the literal 1.5 of the loop condition
EndTime == <<0, 0, 3 * 2^19>>

\* Mutant: the test looks one step ahead, to stop before overshooting.
LoopCondition_Lookahead(t) == DLess(DAdd(t, StepArg), EndTime)

\* Mutant: the loop never tests the time.
LoopCondition_True(t) == TRUE

\* while (sys.GetChTime() < 1.5)
LoopCondition(t) == DLess(t, EndTime)

\* Mutant: AddAll is called before the link is added to the system.
Program_AddAllEarly ==
    <<"config", "floor", "pendulum", "addall", "link", "camera", "script", "loop">>

\* Statements of main() after the directory check, in program order, up to
\* the loop.
Program == <<"config", "floor", "pendulum", "link", "camera", "addall", "script", "loop">>

\* Mutant: the time is printed before the step is taken.
BodyOrder_PrintFirst == <<"print", "step", "export">>

\* Mutant: the frame is exported before the time is printed.
BodyOrder_ExportFirst == <<"step", "export", "print">>

\* Statements of the loop body, in program order.
BodyOrder == <<"step", "print", "export">>

\* Number of occurrences of event e in the trace q.
Count(q, e) == Cardinality({i \in 1..Len(q) : q[i] = e})

\* Position of statement s in the sequence q.
Pos(q, s) == CHOOSE i \in 1..Len(q) : q[i] = s

\* The statement that follows s in the straight-line part.
After(s) == Program[Pos(Program, s) + 1]

\* The statement that follows s in the loop body; the loop test after the last.
AfterInBody(s) ==
    IF Pos(BodyOrder, s) = Len(BodyOrder) THEN "loop"
    ELSE BodyOrder[Pos(BodyOrder, s) + 1]

----------------------------------------------------------------------------
(* State machine                                                           *)

Init ==
    /\ pc = "mkdir"
    /\ dirCreated = FALSE
    /\ bodies = {}
    /\ links = {}
    /\ povItems = {}
    /\ ChTime = Zero
    /\ console = <<>>
    /\ log = <<>>
    /\ exitCode = -1

\* Mutant: the error branch is missing, main goes on after a failure.
CreateDirectory_NoReturn ==
    /\ pc = "mkdir"
    /\ \E ok \in BOOLEAN :
          /\ dirCreated' = ok
          /\ pc' = Program[1]
    /\ log' = Append(log, "create_directory")
    /\ UNCHANGED <<bodies, links, povItems, ChTime, console, exitCode>>

\* Mutant: the test of the result is inverted (the ! is missing).
CreateDirectory_Inverted ==
    /\ pc = "mkdir"
    /\ \E ok \in BOOLEAN :
          /\ dirCreated' = ok
          /\ pc' = IF ok THEN "error" ELSE Program[1]
    /\ log' = Append(log, "create_directory")
    /\ UNCHANGED <<bodies, links, povItems, ChTime, console, exitCode>>

\* if (!filesystem::create_directory(path(out_dir))) ... : the call succeeds
\* or fails; on failure control goes to the error branch.
CreateDirectory ==
    /\ pc = "mkdir"
    /\ \E ok \in BOOLEAN :
          /\ dirCreated' = ok
          /\ pc' = IF ok THEN Program[1] ELSE "error"
    /\ log' = Append(log, "create_directory")
    /\ UNCHANGED <<bodies, links, povItems, ChTime, console, exitCode>>

\* std::cout << "Error creating directory " << out_dir; return 1;
ErrorExit ==
    /\ pc = "error"
    /\ console' = Append(console, <<"Error creating directory", 0>>)
    /\ exitCode' = 1
    /\ pc' = "done"
    /\ UNCHANGED <<dirCreated, bodies, links, povItems, ChTime, log>>

\* ChSystemNSC sys; ChPovRay pov_exporter(&sys); SetTemplateFile, SetBasePath,
\* SetLight, SetCustomPOVcommandsScript, SetCollisionSystemType.
ConfigureExporter ==
    /\ pc = "config"
    /\ pc' = After("config")
    /\ log' = Append(log, "SetBasePath")
    /\ UNCHANGED <<dirCreated, bodies, links, povItems, ChTime, console, exitCode>>

\* floorBody = ChBodyEasyBox(10,2,10,...); SetFixed(true); sys.Add(floorBody)
AddFloor ==
    /\ pc = "floor"
    /\ bodies' = bodies \cup {"floorBody"}
    /\ pc' = After("floor")
    /\ log' = Append(log, "Add(floorBody)")
    /\ UNCHANGED <<dirCreated, links, povItems, ChTime, console, exitCode>>

\* pendulumBody = ChBodyEasyBox(0.5,2,0.5,...); sys.Add(pendulumBody)
AddPendulum ==
    /\ pc = "pendulum"
    /\ bodies' = bodies \cup {"pendulumBody"}
    /\ pc' = After("pendulum")
    /\ log' = Append(log, "Add(pendulumBody)")
    /\ UNCHANGED <<dirCreated, links, povItems, ChTime, console, exitCode>>

\* sphericalLink->Initialize(pendulumBody, floorBody, ...); sys.Add(sphericalLink)
AddLink ==
    /\ pc = "link"
    /\ links' = links \cup {<<"sphericalLink", {"pendulumBody", "floorBody"}>>}
    /\ pc' = After("link")
    /\ log' = Append(log, "Add(sphericalLink)")
    /\ UNCHANGED <<dirCreated, bodies, povItems, ChTime, console, exitCode>>

\* visual assets, camera, pov_exporter.SetCamera(...)
SetCamera ==
    /\ pc = "camera"
    /\ pc' = After("camera")
    /\ log' = Append(log, "SetCamera")
    /\ UNCHANGED <<dirCreated, bodies, links, povItems, ChTime, console, exitCode>>

\* pov_exporter.AddAll(): the exporter takes every item now in the system.
AddAll ==
    /\ pc = "addall"
    /\ povItems' = bodies \cup {l[1] : l \in links}
    /\ pc' = After("addall")
    /\ log' = Append(log, "AddAll")
    /\ UNCHANGED <<dirCreated, bodies, links, ChTime, console, exitCode>>

\* pov_exporter.ExportScript()
ExportScript ==
    /\ pc = "script"
    /\ pc' = After("script")
    /\ log' = Append(log, "ExportScript")
    /\ UNCHANGED <<dirCreated, bodies, links, povItems, ChTime, console, exitCode>>

\* while (sys.GetChTime() < 1.5) { ... }  return 0;
LoopTest ==
    /\ pc = "loop"
    /\ IF LoopCondition(ChTime)
          THEN pc' = BodyOrder[1] /\ UNCHANGED exitCode
          ELSE pc' = "done" /\ exitCode' = 0
    /\ UNCHANGED <<dirCreated, bodies, links, povItems, ChTime, console, log>>

\* What ChSystem::DoStepDynamics(dt) does to the system time: it advances
\* by the step it is given, in double arithmetic.
AdvanceTime(t, dt) == DAdd(t, dt)

\* sys.DoStepDynamics(0.01)
DoStepDynamics ==
    /\ pc = "step"
    /\ Count(log, "DoStepDynamics") < MaxSteps
    /\ ChTime' = AdvanceTime(ChTime, StepArg)
    /\ pc' = AfterInBody("step")
    /\ log' = Append(log, "DoStepDynamics")
    /\ UNCHANGED <<dirCreated, bodies, links, povItems, console, exitCode>>

\* std::cout << "time= " << sys.GetChTime() << std::endl;
PrintTime ==
    /\ pc = "print"
    /\ console' = Append(console, <<"time=", FormatG(ChTime)>>)
    /\ pc' = AfterInBody("print")
    /\ log' = Append(log, "print")
    /\ UNCHANGED <<dirCreated, bodies, links, povItems, ChTime, exitCode>>

\* Mutant: the export script is written again with every frame.
ExportData_WithScript ==
    /\ pc = "export"
    /\ pc' = AfterInBody("export")
    /\ log' = log \o <<"ExportScript", "ExportData">>
    /\ UNCHANGED <<dirCreated, bodies, links, povItems, ChTime, console, exitCode>>

\* pov_exporter.ExportData(): one frame of the scene is written.
ExportData ==
    /\ pc = "export"
    /\ pc' = AfterInBody("export")
    /\ log' = Append(log, "ExportData")
    /\ UNCHANGED <<dirCreated, bodies, links, povItems, ChTime, console, exitCode>>

Next ==
    \/ CreateDirectory
    \/ ErrorExit
    \/ ConfigureExporter
    \/ AddFloor
    \/ AddPendulum
    \/ AddLink
    \/ SetCamera
    \/ AddAll
    \/ ExportScript
    \/ LoopTest
    \/ DoStepDynamics
    \/ PrintTime
    \/ ExportData

Spec == Init /\ [][Next]_vars

\* main() is one sequential thread: a statement that can run does run.
FairSpec == Spec /\ WF_vars(Next)

----------------------------------------------------------------------------
(* Observations on the call trace and the console                          *)

Steps == Count(log, "DoStepDynamics")
Prints == Count(log, "print")
Exports == Count(log, "ExportData")
Scripts == Count(log, "ExportScript")

\* The time values printed so far, in units of 10^-8.
TimesPrinted ==
    LET t == SelectSeq(console, LAMBDA e : e[1] = "time=")
    IN  [i \in 1..Len(t) |-> t[i][2]]

\* Index of the first occurrence of event e in the trace (0 when absent).
FirstIndex(e) ==
    IF Count(log, e) = 0 THEN 0
    ELSE CHOOSE i \in 1..Len(log) :
            log[i] = e /\ \A j \in 1..(i - 1) : log[j] # e

\* main() got past the directory check and has not failed.
Succeeded == pc = "done" /\ dirCreated

InLoop == pc \in {"loop", "step", "print", "export"}

TheScene == {"floorBody", "pendulumBody", "sphericalLink"}

\* x + y without rounding; 2^-45 as a tolerance for accumulated rounding.
ExactAdd(x, y) == Normalize(<<x[1] + y[1], x[2] + y[2], x[3] + y[3]>>)
Tolerance == <<2^15, 0, 0>>
Near(x, y) == DLess(x, ExactAdd(y, Tolerance)) /\ DLess(y, ExactAdd(x, Tolerance))

\* k * x in double arithmetic (one rounding), for k <= 2^10.
DTimes(k, x) == RoundToDouble(Normalize(<<k * x[1], k * x[2], k * x[3]>>))

----------------------------------------------------------------------------
(* Claims                                                                  *)

\* C1: when create_directory fails, main prints the error message and exits
\* with status 1, and on that run no DoStepDynamics, no ExportScript and no
\* ExportData is ever performed (time stays 0, no frame is written).
C1_FailureExitsWithoutSimulation ==
    (pc # "mkdir" /\ ~dirCreated) =>
        /\ pc \in {"error", "done"}
        /\ Steps = 0 /\ Scripts = 0 /\ Exports = 0
        /\ ChTime = Zero
        /\ bodies = {} /\ links = {} /\ povItems = {}
        /\ pc = "done" =>
              /\ exitCode = 1
              /\ console = << <<"Error creating directory", 0>> >>

C1_Witness == pc = "done" /\ ~dirCreated /\ exitCode = 1 /\ Len(console) = 1

\* C2: the output directory has been created successfully before any export
\* call: whenever ExportScript or ExportData has been called, or is the next
\* statement, create_directory has returned success, and it was the first call.
C2_DirectoryBeforeExport ==
    (Scripts > 0 \/ Exports > 0 \/ pc \in {"script", "export"}) =>
        /\ dirCreated
        /\ log[1] = "create_directory"
        /\ FirstIndex("create_directory") < FirstIndex("ExportScript")
              \/ Scripts = 0

C2_Witness == dirCreated /\ Scripts = 1 /\ Exports = 3 /\ pc = "loop"

\* C3: on a run where the directory was created the loop runs exactly 150
\* steps, starting at time 0, and every step is followed by exactly one
\* ExportData before the next step (or the exit), 150 exports in total.
C3_Exactly150Steps ==
    /\ Steps <= 150
    /\ Steps = 0 => ChTime = Zero
    /\ pc = "loop" => Exports = Steps
    /\ Succeeded =>
          /\ Steps = 150
          /\ Exports = 150
          /\ \A i \in 1..Len(log) :
                log[i] = "DoStepDynamics" =>
                    LET later == {j \in (i + 1)..Len(log) : log[j] = "DoStepDynamics"}
                        stop  == IF later = {} THEN Len(log) + 1
                                 ELSE CHOOSE j \in later : \A m \in later : j <= m
                    IN  Cardinality({j \in i..(stop - 1) : log[j] = "ExportData"}) = 1

C3_Witness == Succeeded /\ Steps = 150 /\ Exports = 150

\* C4: the time values printed to the console are monotonically
\* non-decreasing and every printed value is at most 1.5.
C4_PrintedTimesMonotoneBounded ==
    /\ \A i \in 1..Len(TimesPrinted) : TimesPrinted[i] <= 150000000
    /\ \A i \in 1..(Len(TimesPrinted) - 1) : TimesPrinted[i] <= TimesPrinted[i + 1]

C4_Witness == Len(TimesPrinted) = 150 /\ TimesPrinted[149] < TimesPrinted[150]

\* C5: each step advances the time by 0.01 and is taken only while the time
\* is below 1.5; on a run where the directory was created the loop
\* terminates, main then exits with status 0, and the time at exit is >= 1.5.
C5_LoopTerminates ==
    /\ [][Steps' # Steps =>
            /\ Steps' = Steps + 1
            /\ DLess(ChTime, EndTime)
            /\ ChTime' = DAdd(ChTime, StepArg)
            /\ FormatG(ChTime') = FormatG(ChTime) + 1000000]_vars
    /\ [][ChTime' # ChTime => Steps' = Steps + 1]_vars
    /\ [](Succeeded => exitCode = 0 /\ ~DLess(ChTime, EndTime))
    /\ (dirCreated ~> (pc = "done" /\ exitCode = 0))

C5_Witness == Succeeded /\ exitCode = 0 /\ ~DLess(ChTime, EndTime) /\ Steps > 0

\* C6: the export script is written exactly once per successful run, before
\* the first simulation step and before the first ExportData, and never
\* inside the loop.
C6_ScriptWrittenOnce ==
    /\ Scripts <= 1
    /\ (InLoop \/ Succeeded) => Scripts = 1
    /\ Steps > 0 => 0 < FirstIndex("ExportScript")
                    /\ FirstIndex("ExportScript") < FirstIndex("DoStepDynamics")
    /\ Exports > 0 => 0 < FirstIndex("ExportScript")
                      /\ FirstIndex("ExportScript") < FirstIndex("ExportData")

C6_Witness == Succeeded /\ Scripts = 1 /\ Exports > 1

\* C7: in every iteration the order is DoStepDynamics, then the print, then
\* ExportData, so every printed time is the time after the step: the first
\* printed value is 0.01, time 0 is never printed, the last one is 1.5.
C7_StepPrintExportOrder ==
    /\ \A i \in 1..Len(log) :
          /\ log[i] = "DoStepDynamics" =>
                /\ i + 1 <= Len(log) => log[i + 1] = "print"
                /\ i + 2 <= Len(log) => log[i + 2] = "ExportData"
          /\ log[i] = "print" => i > 1 /\ log[i - 1] = "DoStepDynamics"
          /\ log[i] = "ExportData" => i > 1 /\ log[i - 1] = "print"
    /\ Len(TimesPrinted) = Prints
    /\ \A i \in 1..Len(TimesPrinted) : TimesPrinted[i] > 0
    /\ TimesPrinted # <<>> => TimesPrinted[1] = 1000000
    /\ (Prints > 0 /\ Prints = Steps) => TimesPrinted[Prints] = FormatG(ChTime)
    /\ Succeeded => TimesPrinted[Len(TimesPrinted)] = 150000000

C7_Witness ==
    /\ Succeeded
    /\ TimesPrinted[1] = 1000000
    /\ TimesPrinted[Len(TimesPrinted)] = 150000000

\* C8: the floor, the pendulum and the link joining them are all in the
\* system before AddAll, AddAll precedes ExportScript, and the loop adds and
\* removes nothing: at every step and export the system holds exactly two
\* bodies and one link, and the exporter holds all three items.
C8_SceneCompleteBeforeExport ==
    /\ Count(log, "AddAll") <= 1
    /\ (Count(log, "AddAll") = 1 \/ pc = "addall") =>
          /\ bodies = {"floorBody", "pendulumBody"}
          /\ Cardinality(links) = 1
          /\ \A l \in links : l[1] = "sphericalLink" /\ l[2] = bodies
    /\ Count(log, "AddAll") = 1 => povItems = TheScene
    /\ (Scripts > 0 \/ pc = "script") =>
          /\ Count(log, "AddAll") = 1
          /\ Scripts > 0 => FirstIndex("AddAll") < FirstIndex("ExportScript")
    /\ (InLoop \/ Succeeded) =>
          /\ Cardinality(bodies) = 2
          /\ Cardinality(links) = 1
          /\ povItems = TheScene

C8_Witness ==
    /\ pc = "export"
    /\ Cardinality(bodies) = 2 /\ Cardinality(links) = 1
    /\ povItems = TheScene

\* C9, as stated: at every reachable state the number of ExportData calls
\* equals the number of time prints, both equal the number of steps or one
\* less, and at the exit of a successful run all three are equal.
C9_Original ==
    /\ Exports = Prints
    /\ Exports <= Steps /\ Steps <= Exports + 1
    /\ Succeeded => (Steps = Prints /\ Prints = Exports)

\* C9, amended: at every reachable state exports <= prints <= steps <=
\* exports + 1 (the prints are one ahead of the exports exactly between the
\* print and the ExportData of an iteration), the counts are equal whenever
\* control is at the loop test, and at the exit of a successful run.
C9_CountsInStep ==
    /\ Exports <= Prints /\ Prints <= Steps /\ Steps <= Exports + 1
    /\ Prints = Len(TimesPrinted)
    /\ Prints = Exports + 1 <=> pc = "export"
    /\ Steps = Prints + 1 <=> pc = "print"
    /\ (pc = "loop" \/ Succeeded) => (Steps = Prints /\ Prints = Exports)

C9_Witness == pc = "export" /\ Prints = Exports + 1 /\ Steps = Prints /\ Steps > 1

====
